---------------------------- MODULE Spec2Model ----------------------------
(***************************************************************************)
(* Model of company_news/query.py: the form handler `enter`, the launched  *)
(* entry point `run_batch`, the remote unit `query` and the fan-out/fan-in *)
(* loop `batch` over the Ray executor (submit / wait / get).               *)
(*                                                                         *)
(* Strings are sequences of one-character strings, a dict is a function    *)
(* whose DOMAIN is its key set, None is the string "None".                 *)
(***************************************************************************)
EXTENDS Naturals, Integers, Sequences, FiniteSets, TLC

VARIABLES
    pc,              \* where the program is: idle, rejected, launched, the steps of batch
    via,             \* the entry point used: "enter" or "batch"
    inputs,          \* the dict posted to enter
    error,           \* the keys of the InputsError raised by enter
    launches,        \* how many Launch objects enter returned
    texts, start, end, tracer,          \* the arguments of batch
    refined, futures, unready, ready,   \* the locals of batch
    completed_jobs, results, result, p,
    task,            \* the executor: the outcome of the unit behind each handle
    submitted,       \* how many times query.remote was called
    events,          \* what the tracer received, in order
    fault,           \* the statement an exception left batch from
    retval,          \* what batch returned, once pc = "returned"
    origin,          \* origin[i]: the handle results[i] was fetched from
    resolved,        \* the handles in the order their units finished
    waited,          \* the handles ray.wait reported ready, in order
    got              \* the handles ray.get was called on, in order

vars == <<pc, via, inputs, error, launches, texts, start, end, tracer, refined, futures,
          unready, ready, completed_jobs, results, result, p, task, submitted,
          events, fault, retval, origin, resolved, waited, got>>

\* what batch fixes before its loop
callVars == <<via, inputs, error, launches, texts, start, end, tracer, refined, futures,
              submitted>>

(* ------------------------------ bounds --------------------------------- *)

\* longest list of lines handed to enter (joined by newlines) or to batch
MaxTexts == 2

(* --------------------------- input universe ---------------------------- *)

None == "None"

\* a local or argument not assigned yet
Unset == [unset |-> TRUE]

NL == "\n"

\* the lines inputs are built from: empty, whitespace only, clean,
\* and one that needs trimming
Lines == { <<>>, <<" ">>, <<"a">>, <<" ", "b", " ">> }

\* date strings in the form's "%Y-%m-%d" layout, as <<year, month, day>>
DateStrs == { <<2023, 12, 31>>, <<2024, 1, 1>> }

RECURSIVE SeqsUpTo(_, _)
SeqsUpTo(S, n) ==
    IF n = 0 THEN { <<>> }
    ELSE LET shorter == SeqsUpTo(S, n - 1)
         IN  shorter \cup { Append(s, x) : s \in { t \in shorter : Len(t) = n - 1 }, x \in S }

TextLists == SeqsUpTo(Lines, MaxTexts)

\* what the form posts in the field texts: the lines joined by newlines
RECURSIVE Join(_)
Join(ls) ==
    IF ls = <<>> THEN <<>>
    ELSE IF Len(ls) = 1 THEN ls[1]
    ELSE ls[1] \o <<NL>> \o Join(Tail(ls))

(* ----------------------------- str methods ----------------------------- *)

IsSpace(c) == c \in {" ", NL}

RECURSIVE lstrip(_)
lstrip(s) ==
    IF s = <<>> THEN <<>>
    ELSE IF IsSpace(Head(s)) THEN lstrip(Tail(s))
    ELSE s

RECURSIVE rstrip(_)
rstrip(s) ==
    IF s = <<>> THEN <<>>
    ELSE IF IsSpace(s[Len(s)]) THEN rstrip(SubSeq(s, 1, Len(s) - 1))
    ELSE s

\* str.strip()
strip(s) == rstrip(lstrip(s))

\* str.split("\n"): always at least one piece, "" for the empty string
RECURSIVE split(_)
split(s) ==
    IF \A i \in 1..Len(s) : s[i] # NL THEN << s >>
    ELSE LET i == CHOOSE k \in 1..Len(s) :
                     s[k] = NL /\ \A j \in 1..(k - 1) : s[j] # NL
         IN  << SubSeq(s, 1, i - 1) >> \o split(SubSeq(s, i + 1, Len(s)))

\* [t.strip() for t in ts]: trimmed, the blank entries kept
StripAll(ts) == [i \in 1..Len(ts) |-> strip(ts[i])]

\* [t.strip() for t in ts if t.strip()]
RECURSIVE StripNonEmpty(_)
StripNonEmpty(ts) ==
    IF ts = <<>> THEN <<>>
    ELSE IF strip(Head(ts)) # <<>>
         THEN << strip(Head(ts)) >> \o StripNonEmpty(Tail(ts))
         ELSE StripNonEmpty(Tail(ts))

(* ------------------------------ datetime ------------------------------- *)

\* datetime.datetime.strptime(s, "%Y-%m-%d")
strptime(s) == [year |-> s[1], month |-> s[2], day |-> s[3]]

Datetimes == { strptime(s) : s \in DateStrs }

\* a comparison that also holds of equal dates
DtGreaterOrEqual(x, y) ==
    \/ x.year > y.year
    \/ x.year = y.year /\ x.month > y.month
    \/ x.year = y.year /\ x.month = y.month /\ x.day >= y.day

\* datetime.__gt__
DtGreater(x, y) ==
    \/ x.year > y.year
    \/ x.year = y.year /\ x.month > y.month
    \/ x.year = y.year /\ x.month = y.month /\ x.day > y.day


(* ------------------------------- dicts --------------------------------- *)

\* {**a, **b}: the keys of both, b's value where both have the key
Merge(a, b) ==
    [k \in (DOMAIN a) \cup (DOMAIN b) |-> IF k \in DOMAIN b THEN b[k] ELSE a[k]]

(* ------------------------- the remote unit query ----------------------- *)

\* what a unit can come to inside the executor: the external call returned
\* ("ok"), the external call raised an Exception ("exc"), or the executor
\* lost the unit (worker died, task cancelled, out of memory): "lost"
Outcomes == {"ok", "exc", "lost"}

\* the dict chat returns
chat(prompt) ==
    [response |-> "model_dump", output |-> "output_text",
     model |-> "gpt-4o-mini", runtime |-> "total_seconds"]

\* a query whose except branch forgets the exception
queryDropsError(text, st, en, outcome) ==
    IF outcome = "ok"
    THEN Merge(chat(text), [query |-> text, start |-> st, end |-> en, error |-> None])
    ELSE [query |-> text, start |-> st, end |-> en, error |-> None]

\* the try / except of query: the value stored for the unit's handle
query(text, st, en, outcome) ==
    IF outcome = "ok"
    THEN Merge(chat(text), [query |-> text, start |-> st, end |-> en, error |-> None])
    ELSE [query |-> text, start |-> st, end |-> en, error |-> "Exception"]

(* ------------------------------- enter --------------------------------- *)

\* a validation that stops at the first failed check
ValidateFirstOnly(ts, st, en) ==
    IF ts = <<>> THEN {"texts"}
    ELSE IF DtGreater(st, en) THEN {"start"}
    ELSE {}

\* the keys added to InputsError by the two checks of enter
Validate(ts, st, en) ==
    (IF ts = <<>> THEN {"texts"} ELSE {}) \cup
    (IF DtGreater(st, en) THEN {"start"} ELSE {})

\* x.strip() is not empty
NotBlank(x) == strip(x) # <<>>

\* a cleansing that drops the blank lines but does not trim the others
CleanseNoTrim(raw) == SelectSeq(split(strip(raw)), NotBlank)

\* a cleansing that trims the lines but keeps the empty ones
CleanseKeepEmpty(raw) ==
    [i \in 1..Len(split(strip(raw))) |-> strip(split(strip(raw))[i])]

\* the cleansed query list of enter
Cleanse(raw) == StripNonEmpty(split(strip(raw)))

(* ------------------------------ progress ------------------------------- *)

\* f"{p:.0f}" for p = num / den * 100: nearest integer, ties to even
Fmt0f(num, den) ==
    LET q == (num * 100) \div den
        r == (num * 100) % den
    IN  IF 2 * r < den THEN q
        ELSE IF 2 * r > den THEN q + 1
        ELSE IF q % 2 = 0 THEN q ELSE q + 1

(* ------------------------------- state --------------------------------- *)

Init ==
    /\ pc = "idle"
    /\ via = None
    /\ inputs = Unset
    /\ error = {}
    /\ launches = 0
    /\ texts = <<>>
    /\ start = Unset
    /\ end = Unset
    /\ tracer = FALSE
    /\ refined = <<>>
    /\ futures = <<>>
    /\ unready = <<>>
    /\ ready = <<>>
    /\ completed_jobs = 0
    /\ results = <<>>
    /\ result = Unset
    /\ p = <<>>
    /\ task = <<>>
    /\ submitted = 0
    /\ events = <<>>
    /\ fault = None
    /\ retval = <<>>
    /\ origin = <<>>
    /\ resolved = <<>>
    /\ waited = <<>>
    /\ got = <<>>

batchLocals == <<refined, futures, unready, ready, completed_jobs, results,
                 result, p, task, submitted, events, fault, retval, origin,
                 resolved, waited, got>>

\* enter: parse and cleanse, validate, raise InputsError or Launch run_batch
Enter(ls, s, e) ==
    /\ pc = "idle"
    /\ LET ts == Cleanse(Join(ls))
           st == strptime(s)
           en == strptime(e)
           errs == Validate(ts, st, en)
       IN  IF errs # {}
           THEN /\ pc' = "rejected"
                /\ error' = errs
                /\ UNCHANGED <<texts, start, end, launches>>
           ELSE /\ pc' = "launched"
                /\ error' = {}
                /\ launches' = launches + 1
                /\ texts' = ts
                /\ start' = st
                /\ end' = en
    /\ via' = "enter"
    /\ inputs' = [texts |-> Join(ls), start |-> s, end |-> e]
    /\ UNCHANGED tracer
    /\ UNCHANGED batchLocals

\* batch up to its loop: refine, submit every job, initialise the counters
BatchBegin(ts, st, en, tr) ==
    /\ texts' = ts
    /\ start' = st
    /\ end' = en
    /\ tracer' = tr
    /\ refined' = StripNonEmpty(ts)
    /\ futures' = [i \in 1..Len(StripNonEmpty(ts)) |-> i]
    /\ unready' = [i \in 1..Len(StripNonEmpty(ts)) |-> i]
    /\ task' = [i \in 1..Len(StripNonEmpty(ts)) |-> "running"]
    /\ submitted' = Len(StripNonEmpty(ts))
    /\ completed_jobs' = 0
    /\ results' = <<>>
    /\ origin' = <<>>
    /\ pc' = "loop"
    /\ UNCHANGED <<ready, result, p, events, fault, retval, resolved, waited, got>>

\* run_batch: the launched entry point, called with the Launch inputs and
\* the platform's Tracer
RunBatch ==
    /\ pc = "launched"
    /\ BatchBegin(texts, start, end, TRUE)
    /\ UNCHANGED <<via, inputs, error, launches>>

\* batch called directly, with any list, with or without a tracer, the
\* dates in order or not
BatchCall(ts, st, en, tr) ==
    /\ pc = "idle"
    /\ BatchBegin(ts, st, en, tr)
    /\ via' = "batch"
    /\ UNCHANGED <<inputs, error, launches>>

\* the executor finishes the unit behind handle h
Resolve(h, o) ==
    /\ h \in DOMAIN task
    /\ task[h] = "running"
    /\ task' = [task EXCEPT ![h] = o]
    /\ resolved' = Append(resolved, h)
    /\ UNCHANGED <<pc, callVars,
                   unready, ready, completed_jobs, results, result, p,
                   events, fault, retval, origin, waited, got>>

\* a loop that waits once before it tests (do ... while)
LoopTestAfterWait ==
    /\ pc = "loop"
    /\ IF unready # <<>> \/ waited = <<>>
       THEN pc' = "wait" /\ UNCHANGED retval
       ELSE pc' = "returned" /\ retval' = results
    /\ UNCHANGED <<callVars,
                   unready, ready, completed_jobs, results, result, p, task,
                   events, fault, origin, resolved, waited, got>>

\* while unready: ... return results
LoopTest ==
    /\ pc = "loop"
    /\ IF unready # <<>>
       THEN pc' = "wait" /\ UNCHANGED retval
       ELSE pc' = "returned" /\ retval' = results
    /\ UNCHANGED <<callVars,
                   unready, ready, completed_jobs, results, result, p, task,
                   events, fault, origin, resolved, waited, got>>

\* a wait that hands back the whole list, the ready handle still in it
RemoveNone(s, i) == s

\* a wait that hands back the list cut at its end, whichever handle was ready
RemoveLast(s, i) == SubSeq(s, 1, Len(s) - 1)

\* the list without its i-th element
RemoveAt(s, i) == SubSeq(s, 1, i - 1) \o SubSeq(s, i + 1, Len(s))

\* a loop that takes the handles in submission order instead of asking
\* which one is ready
WaitFirst(i) ==
    /\ pc = "wait"
    /\ i = 1
    /\ ready' = << unready[i] >>
    /\ unready' = Tail(unready)
    /\ pc' = "get"
    /\ waited' = Append(waited, unready[i])
    /\ UNCHANGED <<callVars,
                   completed_jobs, results, result, p, task, events, fault,
                   retval, origin, resolved, got>>

\* ray.wait(unready, num_returns=1, timeout=1) reporting one finished handle
WaitReady(i) ==
    /\ pc = "wait"
    /\ i \in 1..Len(unready)
    /\ task[unready[i]] # "running"
    /\ ready' = << unready[i] >>
    /\ unready' = RemoveAt(unready, i)
    /\ pc' = "get"
    /\ waited' = Append(waited, unready[i])
    /\ UNCHANGED <<callVars,
                   completed_jobs, results, result, p, task, events, fault,
                   retval, origin, resolved, got>>

\* a timed-out wait that hands back the list without its first handle
WaitTimeoutDropsHead ==
    /\ pc = "wait"
    /\ \A i \in 1..Len(unready) : task[unready[i]] = "running"
    /\ ready' = <<>>
    /\ unready' = Tail(unready)
    /\ pc' = "sleep"
    /\ UNCHANGED <<callVars,
                   completed_jobs, results, result, p, task, events, fault,
                   retval, origin, resolved, waited, got>>

\* ray.wait timing out: nothing is ready, the list comes back whole
WaitTimeout ==
    /\ pc = "wait"
    /\ \A i \in 1..Len(unready) : task[unready[i]] = "running"
    /\ ready' = <<>>
    /\ unready' = unready
    /\ pc' = "sleep"
    /\ UNCHANGED <<callVars,
                   completed_jobs, results, result, p, task, events, fault,
                   retval, origin, resolved, waited, got>>

\* lines 171-174: fetch, append, count, compute the fraction
Get ==
    /\ pc = "get"
    /\ LET h == ready[1]
       IN  IF task[h] = "lost"
           THEN /\ pc' = "raised"
                /\ fault' = "get"
                /\ UNCHANGED <<result, results, completed_jobs, p, origin>>
           ELSE /\ result' = query(refined[h], start, end, task[h])
                /\ results' = Append(results, query(refined[h], start, end, task[h]))
                /\ origin' = Append(origin, h)
                /\ completed_jobs' = completed_jobs + 1
                /\ IF Len(texts) = 0
                   THEN /\ pc' = "raised"
                        /\ fault' = "progress"
                        /\ UNCHANGED p
                   ELSE /\ pc' = "header"
                        /\ p' = << completed_jobs + 1, Len(texts) >>
                        /\ UNCHANGED fault
    /\ got' = Append(got, ready[1])
    /\ UNCHANGED <<callVars,
                   unready, ready, task, events, retval, resolved, waited>>

\* a reporter call that puts the event in front of the earlier ones
EmitPrepend(ev, next) ==
    /\ IF tracer
       THEN /\ events' = << ev >> \o events
            /\ pc' = next
            /\ UNCHANGED fault
       ELSE /\ pc' = "raised"
            /\ fault' = "tracer"
            /\ UNCHANGED events
    /\ UNCHANGED <<callVars,
                   unready, ready, completed_jobs, results, result, p, task,
                   retval, origin, resolved, waited, got>>

\* await tracer.markdown(...) / tracer.html(...): an attribute access on the
\* tracer, which fails when the tracer is None
Emit(ev, next) ==
    /\ IF tracer
       THEN /\ events' = Append(events, ev)
            /\ pc' = next
            /\ UNCHANGED fault
       ELSE /\ pc' = "raised"
            /\ fault' = "tracer"
            /\ UNCHANGED events
    /\ UNCHANGED <<callVars,
                   unready, ready, completed_jobs, results, result, p, task,
                   retval, origin, resolved, waited, got>>

\* line 175
ReportHeader ==
    /\ pc = "header"
    /\ Emit([call |-> "markdown", part |-> "header", query |-> result["query"]],
            "fraction")

\* line 176
ReportFraction ==
    /\ pc = "fraction"
    /\ Emit([call |-> "markdown", part |-> "fraction",
             completed |-> completed_jobs, total |-> Len(texts),
             percent |-> Fmt0f(p[1], p[2])],
            "body")

\* lines 177-180; result["output"] is a KeyError when the dict has no output
ReportBody ==
    /\ pc = "body"
    /\ IF result["error"] # None
       THEN Emit([call |-> "markdown", part |-> "error", error |-> result["error"]],
                 "separator")
       ELSE IF "output" \in DOMAIN result
       THEN Emit([call |-> "markdown", part |-> "output", text |-> result["output"]],
                 "separator")
       ELSE /\ pc' = "raised"
            /\ fault' = "output"
            /\ UNCHANGED <<callVars, unready, ready, completed_jobs, results,
                           result, p, task, events, retval, origin,
                           resolved, waited, got>>

\* lines 181-182
ReportSeparator ==
    /\ pc = "separator"
    /\ Emit([call |-> "html", part |-> "separator"], "sleep")

\* line 183, then back to the loop test
Sleep ==
    /\ pc = "sleep"
    /\ pc' = "loop"
    /\ UNCHANGED <<callVars,
                   unready, ready, completed_jobs, results, result, p, task,
                   events, fault, retval, origin, resolved, waited, got>>

Handles == 1..MaxTexts

Next ==
    \/ \E ls \in TextLists, s \in DateStrs, e \in DateStrs : Enter(ls, s, e)
    \/ RunBatch
    \/ \E ts \in TextLists, st \in Datetimes, en \in Datetimes, tr \in BOOLEAN :
          st # en /\ BatchCall(ts, st, en, tr)
    \/ \E h \in Handles, o \in Outcomes : Resolve(h, o)
    \/ LoopTest
    \/ \E i \in Handles : WaitReady(i)
    \/ WaitTimeout
    \/ Get
    \/ ReportHeader
    \/ ReportFraction
    \/ ReportBody
    \/ ReportSeparator
    \/ Sleep

Spec == Init /\ [][Next]_vars

\* the loop is a running coroutine and the executor finishes its units
FairSpec ==
    /\ Spec
    /\ WF_vars(LoopTest)
    /\ WF_vars(\E i \in Handles : WaitReady(i))
    /\ WF_vars(WaitTimeout)
    /\ WF_vars(Get)
    /\ WF_vars(ReportHeader)
    /\ WF_vars(ReportFraction)
    /\ WF_vars(ReportBody)
    /\ WF_vars(ReportSeparator)
    /\ WF_vars(Sleep)
    /\ \A h \in Handles : WF_vars(\E o \in Outcomes : Resolve(h, o))


(* ============================== properties ============================= *)

Range(f) == { f[i] : i \in DOMAIN f }

\* the jobs batch has to submit for its argument texts
Jobs == StripNonEmpty(texts)

IsFraction(ev) == ev.part = "fraction"

\* the completion-fraction events received so far
Fractions == SelectSeq(events, IsFraction)

\* the positions of batch inside its loop
LoopPcs == {"loop", "wait", "get", "header", "fraction", "body", "separator", "sleep"}

\* a posted text with no character other than blanks and line breaks
AllBlank(raw) == \A i \in 1..Len(raw) : IsSpace(raw[i])

\* a date string as one number, for comparing
Ordinal(s) == s[1] * 10000 + s[2] * 100 + s[3]

\* C1: the results are in one-to-one correspondence with the jobs. At every
\* moment no handle has two entries and every entry carries the query text
\* of the job it was fetched for; when batch returns, the returned list has
\* as many entries as the input has trimmed non-empty lines, every job has
\* its entry, and every query text is as often in the list as among the jobs.
C1_OneResultPerJob ==
    /\ Len(origin) = Len(results)
    /\ \A i, j \in 1..Len(origin) : origin[i] = origin[j] => i = j
    /\ \A i \in 1..Len(results) :
          origin[i] \in 1..Len(Jobs) /\ results[i]["query"] = Jobs[origin[i]]
    /\ pc = "returned" =>
          /\ retval = results
          /\ Len(retval) = Len(Jobs)
          /\ \A h \in 1..Len(Jobs) : \E i \in 1..Len(retval) : origin[i] = h
          /\ \A q \in Range(Jobs) :
                Cardinality({ i \in 1..Len(retval) : retval[i]["query"] = q })
                  = Cardinality({ h \in 1..Len(Jobs) : Jobs[h] = q })

\* two jobs, finished in the reverse of submission order, the first
\* fetched one failed
C1_Witness ==
    /\ pc = "returned"
    /\ Len(retval) = 2
    /\ origin = <<2, 1>>
    /\ retval[1]["error"] # None
    /\ retval[2]["error"] = None
    /\ retval[1]["query"] # retval[2]["query"]

HasOutput(r) == "output" \in DOMAIN r /\ r["output"] # None

HasError(r) == r["error"] # None

\* C2: every entry of the result list, while it is built and when it is
\* returned, has exactly one of output and error: the entry of a unit whose
\* external call raised has error and no output, the entry of a unit whose
\* call returned has output and no error, whatever the other units did.
C2_ExactlyOneOfOutputError ==
    /\ \A i \in 1..Len(results) :
          /\ HasOutput(results[i]) # HasError(results[i])
          /\ task[origin[i]] = "exc" => HasError(results[i]) /\ ~HasOutput(results[i])
          /\ task[origin[i]] = "ok" => HasOutput(results[i]) /\ ~HasError(results[i])
    /\ pc = "returned" =>
          \A i \in 1..Len(retval) : HasOutput(retval[i]) # HasError(retval[i])

\* a returned list with a failed entry followed by a succeeded one
C2_Witness ==
    /\ pc = "returned"
    /\ origin = <<1, 2>>
    /\ task[1] = "exc"
    /\ task[2] = "ok"
    /\ "output" \notin DOMAIN retval[1]
    /\ retval[2]["output"] = "output_text"

\* C3: a failed unit, whatever the failure (the external call raised, or the
\* executor reports the unit as failed), ends as an entry with error set:
\* get never raises out of the loop, and the unit is not submitted again.
C3_FailureCaptured ==
    /\ fault # "get"
    /\ submitted <= Len(Jobs)
    /\ \A h \in DOMAIN task :
          (/\ task[h] \in {"exc", "lost"}
           /\ h \notin Range(unready)
           /\ ~(pc = "get" /\ ready = << h >>))
          => \E i \in 1..Len(results) : origin[i] = h /\ HasError(results[i])

\* C4: once batch is in its loop and the executor resolves every handle,
\* batch returns its result list.
C4_LoopTerminates == (pc = "loop") ~> (pc = "returned")

\* C5: a posted text with no non-empty line makes enter raise the
\* validation error with the key texts, and nothing is dispatched: no job
\* submitted, no handle, no progress event, no batch result.
C5_EmptyQueryRejected ==
    (via = "enter" /\ AllBlank(inputs.texts)) =>
        /\ pc = "rejected"
        /\ "texts" \in error
        /\ submitted = 0
        /\ task = <<>>
        /\ futures = <<>>
        /\ events = <<>>
        /\ pc # "returned"

\* a text of blanks and line breaks only, with the dates in order, rejected
C5_Witness ==
    /\ pc = "rejected"
    /\ error = {"texts"}
    /\ Len(inputs.texts) > 1
    /\ AllBlank(inputs.texts)

\* C6: start strictly after end makes enter raise the validation error with
\* the key start and nothing is dispatched, whatever the query text; with
\* start equal to end and a query present the input is accepted.
C6_StartAfterEndRejected ==
    via = "enter" =>
        /\ Ordinal(inputs.start) > Ordinal(inputs.end) =>
              /\ pc = "rejected"
              /\ "start" \in error
              /\ submitted = 0
              /\ task = <<>>
              /\ futures = <<>>
              /\ events = <<>>
        /\ (inputs.start = inputs.end /\ ~AllBlank(inputs.texts)) =>
              /\ pc # "rejected"
              /\ error = {}

\* a proper query with start after end, rejected for the dates alone
C6_Witness ==
    /\ pc = "rejected"
    /\ error = {"start"}
    /\ ~AllBlank(inputs.texts)
    /\ Ordinal(inputs.start) > Ordinal(inputs.end)

\* C7: the reported percentage never decreases from one progress event to
\* the next, and it is 100 on the event of the N-th completed job and on no
\* other, N being the number of submitted jobs.
C7_FractionMonotoneTo100 ==
    /\ \A i, j \in 1..Len(Fractions) :
          i < j => Fractions[i].percent <= Fractions[j].percent
    /\ \A k \in 1..Len(Fractions) :
          (Fractions[k].percent = 100) <=> (k = submitted)

\* C8: blank entries are dropped and the k-th progress event reports k
\* out of the number of non-blank lines.
C8_FractionOverJobs ==
    \A k \in 1..Len(Fractions) :
        /\ Fractions[k].completed = k
        /\ Fractions[k].total = Len(Jobs)
        /\ Fractions[k].percent = Fmt0f(k, Len(Jobs))

\* C9: without a tracer the progress events are dropped and the reporting
\* statements never abort batch.
C9_AbsentTracerHarmless ==
    (via = "batch" /\ ~tracer) => (fault # "tracer" /\ events = <<>>)

\* C10: once the jobs are submitted batch leaves its loop only by returning
\* with unready empty, never through an exception.
C10_LoopLeftOnlyWhenDrained ==
    [][(pc \in LoopPcs) =>
          (pc' \in LoopPcs \/ (pc' = "returned" /\ unready = <<>> /\ fault' = None))]_vars


\* the place of handle h in the sequence s, 0 when it is not there
Pos(s, h) == IF h \in Range(s) THEN CHOOSE i \in 1..Len(s) : s[i] = h ELSE 0

\* C11: while a submitted unit has not resolved, batch stays in its loop:
\* it neither returns nor stops in any other way.
C11_StuckUnitKeepsLoop ==
    (\E h \in DOMAIN task : task[h] = "running") => pc \in LoopPcs

\* C12 as stated: the results are in the order their handles became ready.
C12_ReadyOrder ==
    \A i, j \in 1..Len(origin) :
        Pos(resolved, origin[i]) < Pos(resolved, origin[j]) => i < j

\* C12: the results are in the order in which wait reported their handles,
\* one per iteration: the i-th entry is the result of the i-th reported
\* handle, a handle is reported only once it is ready, so a result fetched
\* before another handle became ready precedes that handle's result; two
\* handles ready at the same wait may be reported in either order. The
\* list follows the reports at every moment, so it is never re-sorted.
C12_WaitOrder ==
    /\ Len(results) <= Len(waited)
    /\ \A i \in 1..Len(results) :
          origin[i] = waited[i] /\ results[i]["query"] = Jobs[waited[i]]
    /\ \A i \in 1..Len(waited) : waited[i] \in Range(resolved)
    /\ \A h \in DOMAIN task : task[h] = "running" => h \notin Range(waited)
    /\ pc = "returned" => retval = results /\ Len(retval) = Len(waited)

\* two jobs, the second finished and fetched first, both returned
C12_Witness ==
    /\ pc = "returned"
    /\ resolved = <<2, 1>>
    /\ waited = <<2, 1>>
    /\ Len(retval) = 2
    /\ retval[1]["query"] = Jobs[2]
    /\ retval[2]["query"] = Jobs[1]

\* C13 as stated: completed counts the results, and the handles in unready
\* and the handles with a result are, disjointly, all the submitted ones.
C13_PendingAndFetchedAreAll ==
    pc \in LoopPcs \cup {"returned"} =>
        /\ completed_jobs = Len(results)
        /\ Range(unready) \cup Range(origin) = Range(futures)
        /\ Range(unready) \cap Range(origin) = {}

\* the handles batch still owes a result for: those in unready and, between
\* wait's report and the fetch, the reported one
Pending == Range(unready) \cup (IF pc = "get" THEN Range(ready) ELSE {})

\* C13: completed counts the results, and the pending handles and the
\* handles with a result are, disjointly, all the submitted ones, where
\* the handle wait has just reported and get has not fetched yet, already
\* out of unready, counts as pending.
C13_BatchStateInvariant ==
    pc \in LoopPcs \cup {"returned"} =>
        /\ completed_jobs = Len(results)
        /\ Len(origin) = Len(results)
        /\ Pending \cup Range(origin) = Range(futures)
        /\ Pending \cap Range(origin) = {}
        /\ pc = "get" => (Len(ready) = 1 /\ ready[1] \notin Range(unready))
        /\ Cardinality(Pending) + Len(results) = Len(futures)

\* one result in, the other handle reported and about to be fetched
C13_Witness ==
    /\ pc = "get"
    /\ Len(results) = 1
    /\ completed_jobs = 1
    /\ unready = <<>>
    /\ Len(futures) = 2


\* the reporting steps of batch, between the first and the last tracer call
ReportPcs == {"header", "fraction", "body", "separator"}

\* how many of its four events the job being reported has had
Reported ==
    IF pc = "header" THEN 0
    ELSE IF pc = "fraction" THEN 1
    ELSE IF pc = "body" THEN 2
    ELSE IF pc = "separator" THEN 3
    ELSE 4

\* C14: the reporter receives, for each completed job in turn, one group of
\* four events: the header with the job's query text, the fraction line,
\* then the error line if the job failed and the output text if it
\* succeeded, then the separator; a group is finished before the next one
\* starts, and there is no group for a job without a result.
C14_EventGroups ==
    tracer =>
        /\ Len(events) =
              IF pc \in ReportPcs THEN 4 * (Len(results) - 1) + Reported
              ELSE 4 * Len(results)
        /\ \A e \in 1..Len(events) :
              LET g == ((e - 1) \div 4) + 1
                  k == (e - 1) % 4
              IN  /\ k = 0 => /\ events[e].part = "header"
                              /\ events[e].query = results[g]["query"]
                              /\ events[e].query = Jobs[origin[g]]
                  /\ k = 1 => /\ events[e].part = "fraction"
                              /\ events[e].completed = g
                  /\ k = 2 => /\ events[e].part \in {"output", "error"}
                              /\ events[e].part = "error" <=> HasError(results[g])
                              /\ events[e].part = "output" =>
                                    events[e].text = results[g]["output"]
                  /\ k = 3 => events[e].part = "separator"

\* two jobs reported, the first failed, the second succeeded
C14_Witness ==
    /\ pc = "returned"
    /\ Len(events) = 8
    /\ events[3].part = "error"
    /\ events[7].part = "output"
    /\ events[1].query # events[5].query

\* C15: get is called only on the handle wait has just reported ready, on
\* each handle at most once, and a handle once reported is never in the
\* list given to wait again, so it is never reported or fetched twice.
C15_HandleConsumedOnce ==
    /\ \A i, j \in 1..Len(got) : got[i] = got[j] => i = j
    /\ \A i, j \in 1..Len(waited) : waited[i] = waited[j] => i = j
    /\ Len(got) <= Len(waited)
    /\ \A i \in 1..Len(got) : got[i] = waited[i] /\ task[got[i]] # "running"
    /\ \A i \in 1..Len(waited) : waited[i] \notin Range(unready)
    /\ Len(waited) - Len(got) = (IF pc = "get" THEN 1 ELSE 0)

\* both handles reported and fetched, in submission order
C15_Witness ==
    /\ pc = "sleep"
    /\ waited = <<1, 2>>
    /\ got = <<1, 2>>
    /\ unready = <<>>
    /\ Len(results) = 2

\* the entries of a list that are not blank
NonBlankCount(ts) == Cardinality({ i \in 1..Len(ts) : ~AllBlank(ts[i]) })

\* C16: every job is submitted before the first wait: nothing is submitted
\* before batch starts, from the loop on submit has been called once per
\* non-blank entry and never again, and as long as wait has reported
\* nothing, the first call included, all those handles are outstanding.
C16_FanOutBeforeFanIn ==
    /\ pc \in {"idle", "rejected", "launched"} =>
          submitted = 0 /\ waited = <<>> /\ task = <<>>
    /\ pc \in LoopPcs \cup {"returned", "raised"} =>
          /\ submitted = NonBlankCount(texts)
          /\ Len(futures) = submitted
          /\ DOMAIN task = 1..submitted
    /\ (pc = "wait" /\ waited = <<>>) =>
          /\ Len(unready) = NonBlankCount(texts)
          /\ Range(unready) = Range(futures)

\* the first wait of a batch of two jobs, no unit finished yet
C16_Witness ==
    /\ pc = "wait"
    /\ waited = <<>>
    /\ Len(unready) = 2
    /\ submitted = 2
    /\ resolved = <<>>

\* C17: an iteration in which wait reports nothing, from the wait through
\* the sleep back to the loop test, changes none of unready, results,
\* completed_jobs and emits no event.
C17_EmptyBranchFrame ==
    [][((pc = "wait" /\ pc' = "sleep") \/ (pc = "sleep" /\ ready = <<>>)) =>
          /\ ready' = <<>>
          /\ unready' = unready
          /\ results' = results
          /\ completed_jobs' = completed_jobs
          /\ events' = events
          /\ origin' = origin
          /\ pc' \in {"sleep", "loop"}]_vars

\* after an empty wait, one result in and one handle still out
C17_Witness ==
    /\ pc = "sleep"
    /\ ready = <<>>
    /\ Len(results) = 1
    /\ Len(unready) = 1
    /\ Len(events) = 4


\* a line with something in it, no blank at either end and no line break
Trimmed(x) ==
    /\ x # <<>>
    /\ ~IsSpace(x[1])
    /\ ~IsSpace(x[Len(x)])
    /\ \A j \in 1..Len(x) : x[j] # NL

\* C18: on the path enter -> Launch -> run_batch -> batch the texts handed
\* on are trimmed non-empty lines only, so batch's own filter changes
\* nothing, one job is submitted per entry, and the fraction is reported
\* over the number of submitted jobs, reaching 100 on the last job only.
C18_EnterHandsCleanTexts ==
    (via = "enter" /\ pc # "rejected") =>
        /\ Len(texts) >= 1
        /\ \A i \in 1..Len(texts) : Trimmed(texts[i])
        /\ pc # "launched" =>
              /\ tracer
              /\ refined = texts
              /\ submitted = Len(texts)
              /\ \A k \in 1..Len(Fractions) :
                    /\ Fractions[k].completed = k
                    /\ Fractions[k].total = submitted
                    /\ (Fractions[k].percent = 100) <=> (k = submitted)

\* a posted text with blanks to trim, run to the end through enter
C18_Witness ==
    /\ via = "enter"
    /\ pc = "returned"
    /\ Len(texts) = 2
    /\ inputs.texts # Join(texts)
    /\ Len(Fractions) = 2
    /\ Fractions[1].percent = 50
    /\ Fractions[2].percent = 100

\* C19: the error enter raises carries the key of every failed check: texts
\* when the query set is empty, start when start is after end, both when
\* both fail; it is raised exactly when a check failed, and then nothing is
\* launched; when no check failed, exactly one batch is launched.
C19_ErrorsAccumulate ==
    via = "enter" =>
        /\ error = (IF AllBlank(inputs.texts) THEN {"texts"} ELSE {}) \cup
                   (IF Ordinal(inputs.start) > Ordinal(inputs.end)
                    THEN {"start"} ELSE {})
        /\ (pc = "rejected") <=> (error # {})
        /\ launches = (IF error = {} THEN 1 ELSE 0)
        /\ error # {} => submitted = 0

\* both checks failed, one error with both keys
C19_Witness ==
    /\ pc = "rejected"
    /\ error = {"texts", "start"}
    /\ launches = 0

\* a datetime as one number, for comparing
DtOrdinal(d) == d.year * 10000 + d.month * 100 + d.day

\* C20: batch called directly validates nothing: with no non-blank entry
\* it submits nothing, never reaches wait or get, emits no event and
\* returns the empty list; with start after end it submits every job.
C20_BatchDoesNotValidate ==
    via = "batch" =>
        /\ error = {}
        /\ launches = 0
        /\ NonBlankCount(texts) = 0 =>
              /\ submitted = 0
              /\ task = <<>>
              /\ pc \in {"loop", "returned"}
              /\ waited = <<>>
              /\ got = <<>>
              /\ events = <<>>
              /\ fault = None
              /\ pc = "returned" => retval = <<>>
        /\ DtOrdinal(start) > DtOrdinal(end) =>
              /\ submitted = NonBlankCount(texts)
              /\ DOMAIN task = 1..NonBlankCount(texts)

\* a direct call with two blank entries, returned empty
C20_Witness ==
    /\ via = "batch"
    /\ pc = "returned"
    /\ Len(texts) = 2
    /\ NonBlankCount(texts) = 0
    /\ retval = <<>>

\* a direct call with start after end, both jobs submitted
C20_WitnessDates ==
    /\ via = "batch"
    /\ DtOrdinal(start) > DtOrdinal(end)
    /\ submitted = 2

=============================================================================
